---- MODULE Spec2Model ----
(***************************************************************************)
(* Model of rust-service: the axum router of app.rs, the handlers of       *)
(* handlers.rs, the error mapping of error.rs and the Prometheus           *)
(* instrumentation middleware of metrics.rs.                               *)
(*                                                                         *)
(* Every request is one task.  Its position in metrics_middleware is       *)
(* pc[r]; the registry (three metric families) is the only shared state.   *)
(* A path is the sequence of its segments: /api/item/42 is                 *)
(* <<"api", "item", "42">>.                                                *)
(***************************************************************************)
EXTENDS Integers, Sequences, FiniteSets, TLC

\* ------------------------------------------------------------- bounds
\* the number of requests the service receives
NumRequests == 2

Requests == 1..NumRequests

\* ------------------------------------------------------------- inputs
Methods == {"GET", "POST"}

\* texts a client puts in the {id} position
IdTexts == {"1", "42", "0", "-5", "abc", "2147483648"}

Uris ==
    {<<"health">>, <<"metrics">>, <<"nope">>}
        \cup {<<"api", "item", t>> : t \in IdTexts}

\* the requests clients send: every path with GET, two of them with POST
Inputs ==
    {i \in Methods \X Uris :
        i[1] = "GET" \/ i[2] \in {<<"health">>, <<"api", "item", "1">>}}

\* the characters of an id text
Spelling(t) ==
    CASE t = "1" -> <<"1">>
      [] t = "42" -> <<"4", "2">>
      [] t = "0" -> <<"0">>
      [] t = "-5" -> <<"-", "5">>
      [] t = "abc" -> <<"a", "b", "c">>
      [] t = "2147483648" -> <<"2", "1", "4", "7", "4", "8", "3", "6", "4", "8">>

VARIABLES pc, method, uri, status, queried, fetched, x_service,
          req_total, req_duration, in_flight, env, startup

\* the state of the requests and of the registry
serving_vars == <<pc, method, uri, status, queried, fetched, x_service,
                  req_total, req_duration, in_flight>>

\* the environment main reads and how far main has come
startup_vars == <<env, startup>>

vars == <<serving_vars, startup_vars>>

\* ------------------------------------------------------------- router
\* app.rs: the three registered patterns
Routes == {<<"health">>, <<"api", "item", "{id}">>, <<"metrics">>}

IsParam(seg) == seg = "{id}"

\* a pattern matches a path segment by segment; a parameter takes any
\* non-empty segment
RouteMatches(route, u) ==
    /\ Len(route) = Len(u)
    /\ \A i \in 1..Len(route) :
          IF IsParam(route[i]) THEN u[i] # "" ELSE route[i] = u[i]

HasMatchedPath(u) == \E route \in Routes : RouteMatches(route, u)

MatchedPath(u) == CHOOSE route \in Routes : RouteMatches(route, u)

\* path_label without the MatchedPath extension: always the literal path
path_label_literal(u) == u

\* Metrics::path_label: the matched pattern, else the literal path
path_label(u) == IF HasMatchedPath(u) THEN MatchedPath(u) ELSE u

\* the exemption test with /health forgotten
IsExemptMetricsOnly(path) == path = <<"metrics">>

\* the test of metrics_middleware that exempts a request
IsExempt(path) == path = <<"metrics">> \/ path = <<"health">>

\* ------------------------------------------------------------- handlers
\* the width of the id that handlers::get_item extracts (Path<i32>)
I32Max == 2147483647
I32Min == -I32Max - 1

DigitChars == {"0", "1", "2", "3", "4", "5", "6", "7", "8", "9"}

DigitValue(c) ==
    CASE c = "0" -> 0 [] c = "1" -> 1 [] c = "2" -> 2 [] c = "3" -> 3
      [] c = "4" -> 4 [] c = "5" -> 5 [] c = "6" -> 6 [] c = "7" -> 7
      [] c = "8" -> 8 [] c = "9" -> 9

NoParse == [ok |-> FALSE, val |-> 0]

\* the digits cs[i..] folded into acc, away from zero in the direction of
\* sign, failing on a non-digit and on leaving the i32 range
RECURSIVE FoldDigits(_, _, _, _)
FoldDigits(cs, i, acc, sign) ==
    IF i > Len(cs) THEN [ok |-> TRUE, val |-> acc]
    ELSE IF cs[i] \notin DigitChars THEN NoParse
    ELSE LET d == DigitValue(cs[i])
             \* checked_mul and checked_add / checked_sub
             overflows == IF sign = 1
                          THEN acc > (I32Max - d) \div 10
                          ELSE acc < (I32Min + d + 9) \div 10
         IN  IF overflows THEN NoParse
             ELSE FoldDigits(cs, i + 1, acc * 10 + sign * d, sign)

\* the Path<i32> extractor: an optional sign, then at least one digit
ParseI32(cs) ==
    IF Len(cs) = 0 THEN NoParse
    ELSE IF cs[1] \in {"+", "-"}
         THEN IF Len(cs) = 1 THEN NoParse
              ELSE FoldDigits(cs, 2, 0, IF cs[1] = "-" THEN -1 ELSE 1)
         ELSE FoldDigits(cs, 1, 0, 1)

\* error.rs: AppError::into_response
into_response(err) ==
    CASE err = "MissingEnv" -> 500
      [] err = "InvalidConfig" -> 400
      [] err = "NotFound" -> 404
      [] err = "Db" -> 500
      [] err = "Io" -> 500

\* what fetch_optional and the decoding of its row can come to: a row, no
\* row, a failed query (a failed connection acquisition included), a row
\* whose id or name does not decode
StoreOutcomes == {"row", "none", "query_error", "decode_error"}

\* get_item with the test id < 0 in place of id <= 0
get_item_validate_negative(idText) ==
    LET parsed == ParseI32(Spelling(idText))
    IN  IF ~parsed.ok THEN 400
        ELSE IF parsed.val < 0 THEN into_response("InvalidConfig")
        ELSE 0

\* get_item up to the store query: the status it returns without the
\* store, or 0 when it goes on to query the store
get_item_validate(idText) ==
    LET parsed == ParseI32(Spelling(idText))
    IN  IF ~parsed.ok THEN 400
        ELSE IF parsed.val <= 0 THEN into_response("InvalidConfig")
        ELSE 0

\* get_item after the store query
get_item_result(outcome) ==
    CASE outcome = "query_error" -> into_response("Db")
      [] outcome = "none" -> into_response("NotFound")
      [] outcome = "decode_error" -> into_response("Db")
      [] outcome = "row" -> 200

\* routing::get(handler): only GET reaches the handler
MethodAllowed(m) == m = "GET"

\* ------------------------------------------------------------- startup
\* an environment variable: unset, or set to a text (its characters)
Unset == [set |-> FALSE, text |-> <<>>]

Text(cs) == [set |-> TRUE, text |-> cs]

PostgresPrefix == <<"p", "o", "s", "t", "g", "r", "e", "s", ":", "/", "/">>

PostgresqlPrefix ==
    <<"p", "o", "s", "t", "g", "r", "e", "s", "q", "l", ":", "/", "/">>

MysqlPrefix == <<"m", "y", "s", "q", "l", ":", "/", "/">>

\* the values the environment gives each variable main reads
UrlTexts ==
    {Unset, Text(PostgresPrefix \o <<"d", "b">>),
     Text(PostgresqlPrefix \o <<"d", "b">>), Text(MysqlPrefix \o <<"d", "b">>)}

PortTexts ==
    {Unset, Text(<<"8", "0", "8", "0">>), Text(<<"0">>),
     Text(<<"a", "b", "c">>), Text(<<"7", "0", "0", "0", "0">>)}

PoolMaxTexts == {Unset, Text(<<"5">>), Text(<<"0">>), Text(<<"a", "b", "c">>)}

PoolMinTexts == {Unset, Text(<<"2">>), Text(<<"2", "0">>), Text(<<"-", "1">>)}

TimeoutTexts ==
    {Unset, Text(<<"5">>), Text(<<"0">>), Text(<<"6", "1">>),
     Text(<<"5", "s">>)}

Envs ==
    [DATABASE_URL : UrlTexts, PORT : PortTexts,
     DB_POOL_MAX_CONNECTIONS : PoolMaxTexts,
     DB_POOL_MIN_CONNECTIONS : PoolMinTexts,
     DB_CONNECT_TIMEOUT_SECS : TimeoutTexts,
     DB_ACQUIRE_TIMEOUT_SECS : TimeoutTexts]

\* str::starts_with
StartsWith(cs, prefix) ==
    Len(cs) >= Len(prefix) /\ SubSeq(cs, 1, Len(prefix)) = prefix

\* the decimal digits of u16::MAX, u32::MAX and u64::MAX
U16MaxDigits == <<"6", "5", "5", "3", "5">>

U32MaxDigits == <<"4", "2", "9", "4", "9", "6", "7", "2", "9", "5">>

U64MaxDigits ==
    <<"1", "8", "4", "4", "6", "7", "4", "4", "0", "7",
      "3", "7", "0", "9", "5", "5", "1", "6", "1", "5">>

RECURSIVE StripZeros(_)
StripZeros(cs) ==
    IF Len(cs) > 1 /\ cs[1] = "0" THEN StripZeros(Tail(cs)) ELSE cs

\* a <= b for digit sequences of one length
RECURSIVE DigitsLeq(_, _)
DigitsLeq(a, b) ==
    IF Len(a) = 0 THEN TRUE
    ELSE IF DigitValue(a[1]) < DigitValue(b[1]) THEN TRUE
    ELSE IF DigitValue(a[1]) > DigitValue(b[1]) THEN FALSE
    ELSE DigitsLeq(Tail(a), Tail(b))

RECURSIVE DecimalValue(_, _)
DecimalValue(cs, acc) ==
    IF Len(cs) = 0 THEN acc
    ELSE DecimalValue(Tail(cs), acc * 10 + DigitValue(cs[1]))

\* str::parse of an unsigned integer type whose largest value has the
\* digits maxDigits: an optional +, then digits, within the type's range
ParseUnsigned(cs, maxDigits) ==
    LET digits == IF Len(cs) > 0 /\ cs[1] = "+" THEN Tail(cs) ELSE cs
        wellFormed == Len(digits) > 0
                          /\ \A i \in 1..Len(digits) : digits[i] \in DigitChars
        sig == StripZeros(digits)
        fits == \/ Len(sig) < Len(maxDigits)
                \/ Len(sig) = Len(maxDigits) /\ DigitsLeq(sig, maxDigits)
    IN  IF wellFormed /\ fits
        THEN [some |-> TRUE, val |-> DecimalValue(sig, 0)]
        ELSE [some |-> FALSE, val |-> 0]

\* parse_u16_env, parse_u32_env, parse_u64_env: env::var(key).ok()?.parse().ok()
parse_env(v, maxDigits) ==
    IF ~v.set THEN [some |-> FALSE, val |-> 0]
    ELSE ParseUnsigned(v.text, maxDigits)

\* Option::unwrap_or
unwrap_or(opt, default) == IF opt.some THEN opt.val ELSE default

ConfigErr(kind) == [ok |-> FALSE, err |-> kind, cfg |-> <<>>]

\* Config::from_env
from_env(e) ==
    LET port == unwrap_or(parse_env(e.PORT, U16MaxDigits), 8080)
        pool_max_connections ==
            unwrap_or(parse_env(e.DB_POOL_MAX_CONNECTIONS, U32MaxDigits), 10)
        pool_min_connections ==
            unwrap_or(parse_env(e.DB_POOL_MIN_CONNECTIONS, U32MaxDigits), 0)
        connect_timeout_secs ==
            unwrap_or(parse_env(e.DB_CONNECT_TIMEOUT_SECS, U64MaxDigits), 5)
        acquire_timeout_secs ==
            unwrap_or(parse_env(e.DB_ACQUIRE_TIMEOUT_SECS, U64MaxDigits), 2)
    IN  IF ~e.DATABASE_URL.set THEN ConfigErr("MissingEnv")
        ELSE IF ~(\/ StartsWith(e.DATABASE_URL.text, PostgresPrefix)
                  \/ StartsWith(e.DATABASE_URL.text, PostgresqlPrefix))
        THEN ConfigErr("InvalidConfig")
        ELSE IF port = 0 THEN ConfigErr("InvalidConfig")
        ELSE IF pool_max_connections = 0 THEN ConfigErr("InvalidConfig")
        ELSE IF pool_min_connections > pool_max_connections
        THEN ConfigErr("InvalidConfig")
        ELSE IF connect_timeout_secs = 0 \/ connect_timeout_secs > 60
        THEN ConfigErr("InvalidConfig")
        ELSE IF acquire_timeout_secs = 0 \/ acquire_timeout_secs > 60
        THEN ConfigErr("InvalidConfig")
        ELSE [ok |-> TRUE, err |-> "",
              cfg |-> [database_url |-> e.DATABASE_URL.text,
                       port |-> port,
                       pool_max_connections |-> pool_max_connections,
                       pool_min_connections |-> pool_min_connections,
                       db_connect_timeout |-> connect_timeout_secs,
                       db_acquire_timeout |-> acquire_timeout_secs]]

\* the environment of the running service
ServingEnv ==
    [DATABASE_URL |-> Text(PostgresPrefix \o <<"d", "b">>), PORT |-> Unset,
     DB_POOL_MAX_CONNECTIONS |-> Unset, DB_POOL_MIN_CONNECTIONS |-> Unset,
     DB_CONNECT_TIMEOUT_SECS |-> Unset, DB_ACQUIRE_TIMEOUT_SECS |-> Unset]

\* what AppState::new can come to: the connection string does not parse,
\* the pool is not created in time, the connection fails, the pool is there
PoolOutcomes == {"bad_url", "timeout", "db_error", "pool"}

\* what binding the listener can come to
BindOutcomes == {"bound", "io_error"}

\* ------------------------------------------------------------- registry
\* A family is the set of its children, one record per label tuple.
\* with_label_values(labels).inc() on an integer family: the child of the
\* label tuple is looked up, created at 0 on first use, and added to in one
\* atomic step (the crate's lock on the children and the atomic value)
HasChild(family, labels) == \E e \in family : e.labels = labels

\* a child inserted anew on every use instead of looked up
AddToChildFresh(family, labels, delta) ==
    family \cup {[labels |-> labels, value |-> delta]}

AddToChild(family, labels, delta) ==
    IF HasChild(family, labels)
    THEN {IF e.labels = labels THEN [e EXCEPT !.value = @ + delta] ELSE e :
             e \in family}
    ELSE family \cup {[labels |-> labels, value |-> delta]}

\* with_label_values(labels).observe(seconds) on the histogram family
Observe(family, labels, seconds) ==
    IF HasChild(family, labels)
    THEN {IF e.labels = labels
          THEN [e EXCEPT !.sample_count = @ + 1, !.sample_sum = @ + seconds]
          ELSE e : e \in family}
    ELSE family \cup
            {[labels |-> labels, sample_count |-> 1, sample_sum |-> seconds]}

\* the value scraped for a label tuple: the sum over its children
RECURSIVE SumValues(_)
SumValues(S) ==
    IF S = {} THEN 0
    ELSE LET e == CHOOSE x \in S : TRUE IN e.value + SumValues(S \ {e})

Children(family, labels) == {e \in family : e.labels = labels}

ValueOf(family, labels) == SumValues(Children(family, labels))

\* Metrics::inc_in_flight / Metrics::dec_in_flight
inc_in_flight(gauge, path) == AddToChild(gauge, <<path>>, 1)

dec_in_flight(gauge, path) == AddToChild(gauge, <<path>>, -1)

\* the status class (2xx, 4xx, 5xx) in place of the status code
CodeLabelClass(st) == ToString((st \div 100) * 100)

\* res.status().as_u16().to_string()
CodeLabel(st) == ToString(st)

\* start.elapsed() at line 130, in ticks of a clock that ticks once for
\* every step the handler chain took: one for the handler, one more when
\* it waited for the store
elapsed(r) == IF queried[r] THEN 2 ELSE 1

\* the label tuple of a request that got its response
LabelsOf(r) == <<method[r], path_label(uri[r]), CodeLabel(status[r])>>

\* ------------------------------------------------------------- actions
NoRequests ==
    /\ pc = [r \in Requests |-> "idle"]
    /\ method = [r \in Requests |-> ""]
    /\ uri = [r \in Requests |-> <<>>]
    /\ status = [r \in Requests |-> 0]
    /\ queried = [r \in Requests |-> FALSE]
    /\ fetched = [r \in Requests |-> "nothing"]
    /\ x_service = [r \in Requests |-> FALSE]
    /\ req_total = {}
    /\ req_duration = {}
    /\ in_flight = {}

\* the service after main has built the router and bound the listener
Init ==
    /\ NoRequests
    /\ env = ServingEnv
    /\ startup = [phase |-> "serving", cfg |-> from_env(ServingEnv).cfg]

\* metrics_middleware, lines 119-124: an exempt request goes straight to
\* the handler chain
EnterExempt(r, m, u) ==
    /\ pc[r] = "idle"
    /\ IsExempt(path_label(u))
    /\ pc' = [pc EXCEPT ![r] = "exempt_next"]
    /\ method' = [method EXCEPT ![r] = m]
    /\ uri' = [uri EXCEPT ![r] = u]
    /\ UNCHANGED <<status, queried, fetched, x_service,
                   req_total, req_duration, in_flight,
                   startup_vars>>

\* the middleware entered without the gauge's increment
EnterMeasuredNoInc(r, m, u) ==
    /\ pc[r] = "idle"
    /\ ~IsExempt(path_label(u))
    /\ pc' = [pc EXCEPT ![r] = "next"]
    /\ method' = [method EXCEPT ![r] = m]
    /\ uri' = [uri EXCEPT ![r] = u]
    /\ UNCHANGED <<status, queried, fetched, x_service,
                   req_total, req_duration, in_flight, startup_vars>>

\* metrics_middleware, lines 119-129: the gauge goes up, the clock starts,
\* the handler chain is awaited
EnterMeasured(r, m, u) ==
    /\ pc[r] = "idle"
    /\ ~IsExempt(path_label(u))
    /\ pc' = [pc EXCEPT ![r] = "next"]
    /\ method' = [method EXCEPT ![r] = m]
    /\ uri' = [uri EXCEPT ![r] = u]
    /\ in_flight' = inc_in_flight(in_flight, path_label(u))
    /\ UNCHANGED <<status, queried, fetched, x_service,
                   req_total, req_duration, startup_vars>>

\* the handler chain of an exempt request returns; the middleware returns
\* its response as it is
ExemptRespond(r) ==
    /\ pc[r] = "exempt_next"
    /\ pc' = [pc EXCEPT ![r] = "done"]
    /\ status' = [status EXCEPT ![r] =
                     IF MethodAllowed(method[r]) THEN 200 ELSE 405]
    /\ UNCHANGED <<method, uri, queried, fetched, x_service,
                   req_total, req_duration, in_flight,
                   startup_vars>>

\* the router's fallback answers a path no pattern matches
FallbackRespond(r) ==
    /\ pc[r] = "next"
    /\ ~HasMatchedPath(uri[r])
    /\ pc' = [pc EXCEPT ![r] = "responded"]
    /\ status' = [status EXCEPT ![r] = 404]
    /\ UNCHANGED <<method, uri, queried, fetched, x_service,
                   req_total, req_duration, in_flight,
                   startup_vars>>

\* the method router refuses a method the route does not register
MethodNotAllowed(r) ==
    /\ pc[r] = "next"
    /\ HasMatchedPath(uri[r])
    /\ ~MethodAllowed(method[r])
    /\ pc' = [pc EXCEPT ![r] = "responded"]
    /\ status' = [status EXCEPT ![r] = 405]
    /\ UNCHANGED <<method, uri, queried, fetched, x_service,
                   req_total, req_duration, in_flight,
                   startup_vars>>

\* get_item, lines 20-26: the id is rejected before the store is reached
GetItemReject(r) ==
    /\ pc[r] = "next"
    /\ HasMatchedPath(uri[r])
    /\ MethodAllowed(method[r])
    /\ get_item_validate(uri[r][3]) # 0
    /\ pc' = [pc EXCEPT ![r] = "responded"]
    /\ status' = [status EXCEPT ![r] = get_item_validate(uri[r][3])]
    /\ UNCHANGED <<method, uri, queried, fetched, x_service,
                   req_total, req_duration, in_flight,
                   startup_vars>>

\* get_item, lines 28-31: the query is sent and the handler is suspended
GetItemQuery(r) ==
    /\ pc[r] = "next"
    /\ HasMatchedPath(uri[r])
    /\ MethodAllowed(method[r])
    /\ get_item_validate(uri[r][3]) = 0
    /\ pc' = [pc EXCEPT ![r] = "querying"]
    /\ queried' = [queried EXCEPT ![r] = TRUE]
    /\ UNCHANGED <<method, uri, status, fetched, x_service,
                   req_total, req_duration, in_flight,
                   startup_vars>>

\* get_item, lines 32-42: the store answers and the handler returns
GetItemRespond(r, outcome) ==
    /\ pc[r] = "querying"
    /\ pc' = [pc EXCEPT ![r] = "responded"]
    /\ status' = [status EXCEPT ![r] = get_item_result(outcome)]
    /\ fetched' = [fetched EXCEPT ![r] = outcome]
    /\ UNCHANGED <<method, uri, queried, x_service,
                   req_total, req_duration, in_flight,
                   startup_vars>>

\* the request's future is dropped, or the task panics, while the handler
\* is suspended on the store: nothing after line 129 runs
Abort(r) ==
    /\ pc[r] = "querying"
    /\ pc' = [pc EXCEPT ![r] = "aborted"]
    /\ UNCHANGED <<method, uri, status, queried, fetched, x_service,
                   req_total, req_duration, in_flight,
                   startup_vars>>

\* Metrics::middleware, lines 76-78
RecordCounter(r) ==
    /\ pc[r] = "responded"
    /\ pc' = [pc EXCEPT ![r] = "counted"]
    /\ req_total' = AddToChild(req_total, LabelsOf(r), 1)
    /\ UNCHANGED <<method, uri, status, queried, fetched, x_service,
                   req_duration, in_flight, startup_vars>>

\* Metrics::middleware, lines 79-81
RecordDuration(r) ==
    /\ pc[r] = "counted"
    /\ pc' = [pc EXCEPT ![r] = "observed"]
    /\ req_duration' = Observe(req_duration, LabelsOf(r), elapsed(r))
    /\ UNCHANGED <<method, uri, status, queried, fetched, x_service,
                   req_total, in_flight, startup_vars>>

\* metrics_middleware, lines 135-140: the gauge goes down, the x-service
\* header is set, the response is returned
Leave(r) ==
    /\ pc[r] = "observed"
    /\ pc' = [pc EXCEPT ![r] = "done"]
    /\ in_flight' = dec_in_flight(in_flight, path_label(uri[r]))
    /\ x_service' = [x_service EXCEPT ![r] = TRUE]
    /\ UNCHANGED <<method, uri, status, queried, fetched,
                   req_total, req_duration, startup_vars>>

Next ==
    \E r \in Requests :
        \/ \E i \in Inputs : EnterExempt(r, i[1], i[2])
        \/ \E i \in Inputs : EnterMeasured(r, i[1], i[2])
        \/ ExemptRespond(r)
        \/ FallbackRespond(r)
        \/ MethodNotAllowed(r)
        \/ GetItemReject(r)
        \/ GetItemQuery(r)
        \/ \E o \in StoreOutcomes : GetItemRespond(r, o)
        \/ Abort(r)
        \/ RecordCounter(r)
        \/ RecordDuration(r)
        \/ Leave(r)

Spec == Init /\ [][Next]_vars

\* ------------------------------------------------------------- main
\* the process before main runs, in any environment
StartupInit ==
    /\ NoRequests
    /\ env \in Envs
    /\ startup = [phase |-> "start", cfg |-> <<>>]

\* main, line 18: the configuration is read
LoadConfig ==
    /\ startup.phase = "start"
    /\ from_env(env).ok
    /\ startup' = [phase |-> "configured", cfg |-> from_env(env).cfg]
    /\ UNCHANGED <<env, serving_vars>>

\* main, line 18: from_env fails and main returns the error
ConfigFails ==
    /\ startup.phase = "start"
    /\ ~from_env(env).ok
    /\ startup' = [phase |-> "failed", cfg |-> <<>>]
    /\ UNCHANGED <<env, serving_vars>>

\* main, line 28: AppState::new creates the pool and the registry, or fails
NewAppState(outcome) ==
    /\ startup.phase = "configured"
    /\ startup' = IF outcome = "pool"
                  THEN [startup EXCEPT !.phase = "connected"]
                  ELSE [phase |-> "failed", cfg |-> <<>>]
    /\ UNCHANGED <<env, serving_vars>>

\* main, line 29: the router is built
BuildRouter ==
    /\ startup.phase = "connected"
    /\ startup' = [startup EXCEPT !.phase = "routed"]
    /\ UNCHANGED <<env, serving_vars>>

\* main, lines 34-40: the listener is bound and the service serves, or
\* main returns the error
Listen(outcome) ==
    /\ startup.phase = "routed"
    /\ startup' = IF outcome = "bound"
                  THEN [startup EXCEPT !.phase = "serving"]
                  ELSE [phase |-> "failed", cfg |-> <<>>]
    /\ UNCHANGED <<env, serving_vars>>

StartupNext ==
    \/ LoadConfig
    \/ ConfigFails
    \/ \E o \in PoolOutcomes : NewAppState(o)
    \/ BuildRouter
    \/ \E o \in BindOutcomes : Listen(o)

SpecStartup == StartupInit /\ [][StartupNext]_vars

\* ------------------------------------------------------------- properties
ExemptPaths == {<<"health">>, <<"metrics">>}

ItemTemplate == <<"api", "item", "{id}">>

IsItemUri(u) == Len(u) = 3 /\ u[1] = "api" /\ u[2] = "item" /\ u[3] # ""

\* the request went through the instrumented branch of the middleware
Measured(r) == pc[r] # "idle" /\ uri[r] \notin ExemptPaths

\* the request is between the gauge's increment and its decrement
InMiddleware(r) ==
    Measured(r)
        /\ pc[r] \in {"next", "querying", "responded", "counted", "observed"}

Counted(r) == Measured(r) /\ pc[r] \in {"counted", "observed", "done"}

Observed(r) == Measured(r) /\ pc[r] \in {"observed", "done"}

\* the labels the specification gives a request
ExpectedPath(r) == IF IsItemUri(uri[r]) THEN ItemTemplate ELSE uri[r]

ExpectedLabels(r) == <<method[r], ExpectedPath(r), ToString(status[r])>>

CountedLike(r) == {q \in Requests : Counted(q) /\ ExpectedLabels(q) = ExpectedLabels(r)}

ObservedLike(r) == {q \in Requests : Observed(q) /\ ExpectedLabels(q) = ExpectedLabels(r)}

RECURSIVE SumSampleCounts(_)
SumSampleCounts(S) ==
    IF S = {} THEN 0
    ELSE LET e == CHOOSE x \in S : TRUE
         IN  e.sample_count + SumSampleCounts(S \ {e})

\* C1: no step of a request whose path label is /health or /metrics changes
\* the request counter, the duration histogram or the in-progress gauge,
\* whatever other requests are doing.
ExemptRequestsLeaveRegistryAlone ==
    [][\A r \in Requests :
          (pc'[r] # pc[r] /\ uri'[r] \in ExemptPaths)
              => UNCHANGED <<req_total, req_duration, in_flight>>]_vars

\* an exempt request has completed while a measured one is half recorded
ExemptServedAmongMeasured ==
    \E r, q \in Requests :
        /\ pc[r] = "done" /\ uri[r] \in ExemptPaths
        /\ pc[q] = "counted" /\ Measured(q)
        /\ req_total # {} /\ in_flight # {}

\* C2: after a request has left the handler chain abnormally, the
\* in-progress gauge of its path label counts only the requests still
\* inside the middleware: the aborted request's increment was released.
InFlightReleasedOnAbort ==
    \A r \in Requests :
        pc[r] = "aborted"
            => ValueOf(in_flight, <<ExpectedPath(r)>>) =
                   Cardinality({q \in Requests :
                       InMiddleware(q) /\ ExpectedPath(q) = ExpectedPath(r)})

\* C3: in any state where no request is in flight every in-progress gauge
\* is 0.
GaugeZeroWhenNothingInFlight ==
    (\A r \in Requests : ~InMiddleware(r))
        => \A e \in in_flight : e.value = 0

\* C4: a request that matches /api/item/{id} is recorded under the template
\* in the gauge, the counter and the histogram, never under its literal
\* path, and requests for different ids with one method and status share
\* one counter child.
PathLabelIsTemplate ==
    /\ \A r \in Requests :
          (Measured(r) /\ IsItemUri(uri[r])) =>
              /\ HasChild(in_flight, <<ItemTemplate>>)
              /\ Counted(r) => HasChild(req_total,
                     <<method[r], ItemTemplate, ToString(status[r])>>)
              /\ Observed(r) => HasChild(req_duration,
                     <<method[r], ItemTemplate, ToString(status[r])>>)
    /\ \A e \in req_total \cup req_duration :
          IsItemUri(e.labels[2]) => e.labels[2] = ItemTemplate
    /\ \A e \in in_flight :
          IsItemUri(e.labels[1]) => e.labels[1] = ItemTemplate
    /\ \A r, q \in Requests :
          (/\ Counted(r) /\ Counted(q) /\ r # q
           /\ IsItemUri(uri[r]) /\ IsItemUri(uri[q])
           /\ method[r] = method[q] /\ status[r] = status[q])
              => ValueOf(req_total,
                     <<method[r], ItemTemplate, ToString(status[r])>>) >= 2

\* /api/item/1 and /api/item/42 were both counted with the same status
TwoIdsOneLabel ==
    \E r, q \in Requests :
        /\ uri[r] = <<"api", "item", "1">> /\ uri[q] = <<"api", "item", "42">>
        /\ method[r] = "GET" /\ method[q] = "GET"
        /\ Counted(r) /\ Counted(q) /\ status[r] = status[q]
        /\ Cardinality(req_total) = 1

\* C5: for the requests that have been counted under one label tuple, the
\* counter holds exactly one child for the tuple and its value is the
\* number of those requests, under every interleaving.
NoLostUpdates ==
    \A r \in Requests :
        Counted(r) =>
            Children(req_total, ExpectedLabels(r)) =
                {[labels |-> ExpectedLabels(r),
                  value |-> Cardinality(CountedLike(r))]}

\* two requests with one label tuple are both between the counter's
\* increment and the histogram's observation
TwoConcurrentSameTuple ==
    \E r, q \in Requests :
        /\ r # q
        /\ pc[r] = "counted" /\ pc[q] = "counted"
        /\ Measured(r) /\ Measured(q)
        /\ ExpectedLabels(r) = ExpectedLabels(q)

\* C6: the counter and the histogram hold, for the tuple (method, path
\* label, status code) of every measured response, one increment and one
\* observation per response, and nothing under any other tuple.
OneIncrementOneObservation ==
    /\ {e.labels : e \in req_total} =
           {ExpectedLabels(r) : r \in {q \in Requests : Counted(q)}}
    /\ {e.labels : e \in req_duration} =
           {ExpectedLabels(r) : r \in {q \in Requests : Observed(q)}}
    /\ SumValues(req_total) = Cardinality({q \in Requests : Counted(q)})
    /\ SumSampleCounts(req_duration) =
           Cardinality({q \in Requests : Observed(q)})
    /\ \A r \in Requests :
          Observed(r) =>
              SumSampleCounts(Children(req_duration, ExpectedLabels(r))) =
                  Cardinality(ObservedLike(r))

\* GET /api/item/1 found no record and was recorded under "404" alone
NotFoundCountedOnce ==
    \E r \in Requests :
        /\ method[r] = "GET" /\ uri[r] = <<"api", "item", "1">>
        /\ fetched[r] = "none" /\ pc[r] = "done"
        /\ req_total =
               {[labels |-> <<"GET", ItemTemplate, "404">>, value |-> 1]}
        /\ req_duration =
               {[labels |-> <<"GET", ItemTemplate, "404">>,
                 sample_count |-> 1, sample_sum |-> 2]}

\* the text is a decimal numeral of an integer greater than 0
IsPositiveIntegerText(t) ==
    LET cs == Spelling(t)
        digits == IF Len(cs) > 0 /\ cs[1] = "+" THEN Tail(cs) ELSE cs
    IN  /\ Len(digits) > 0
        /\ \A i \in 1..Len(digits) : digits[i] \in DigitChars
        /\ \E i \in 1..Len(digits) : digits[i] # "0"

\* the numeral's value is at most 2^31 - 1
IsPositiveI32Text(t) == IsPositiveIntegerText(t) /\ ParseI32(Spelling(t)).ok

IsGetItem(r) == pc[r] # "idle" /\ method[r] = "GET" /\ IsItemUri(uri[r])

\* the status is the one the store's answer calls for
StoreDecides(r) ==
    /\ queried[r]
    /\ fetched[r] \in StoreOutcomes
    /\ fetched[r] = "row" => status[r] = 200
    /\ fetched[r] = "none" => status[r] = 404
    /\ fetched[r] \in {"query_error", "decode_error"} => status[r] = 500

\* C7 as stated: GET /api/item/{id} answers 400 without querying the store
\* when id is not a positive integer, and for every positive integer id
\* answers 200, 404 or 500 as the store's answer calls for.
GetItemStatusForPositiveInteger ==
    \A r \in Requests :
        (IsGetItem(r) /\ status[r] # 0) =>
            IF IsPositiveIntegerText(uri[r][3])
            THEN StoreDecides(r)
            ELSE status[r] = 400 /\ ~queried[r]

\* C7 amended: GET /api/item/{id} answers 400 without ever querying the
\* store when id is not a positive integer of the signed 32-bit range, and
\* for every id of that range answers 200, 404 or 500 as the store's answer
\* calls for.
GetItemStatusForPositiveI32 ==
    \A r \in Requests :
        IsGetItem(r) =>
            /\ queried[r] => IsPositiveI32Text(uri[r][3])
            /\ status[r] # 0 =>
                  IF IsPositiveI32Text(uri[r][3])
                  THEN StoreDecides(r)
                  ELSE status[r] = 400 /\ ~queried[r]

\* an id above 2^31 - 1 was answered 400 without a query, and a request for
\* id 1 was answered 404 from the store
OverflowRejectedAndStoreAsked ==
    \E r, q \in Requests :
        /\ IsGetItem(r) /\ uri[r][3] = "2147483648"
        /\ status[r] = 400 /\ ~queried[r]
        /\ IsGetItem(q) /\ uri[q][3] = "1"
        /\ status[q] = 404 /\ queried[q]

\* C8: every response that has gone out carries the x-service header, on
\* exempt and on measured paths.
XServiceOnEveryResponse ==
    \A r \in Requests : pc[r] = "done" => x_service[r]

\* the variable is unset, or a decimal numeral of a value in lo..hi (the
\* numerals of Envs that fit their type are all below 2^31)
UnsetOrWithin(v, maxDigits, lo, hi) ==
    ~v.set
        \/ LET p == ParseUnsigned(v.text, maxDigits)
           IN  p.some /\ lo <= p.val /\ p.val <= hi

\* every configuration value of the environment is well formed and within
\* its range: a postgres connection string, a port in 1..65535, pool sizes
\* with 1 <= max and min <= max, timeouts in 1..60 seconds
EnvIsValid(e) ==
    /\ e.DATABASE_URL.set
    /\ \/ StartsWith(e.DATABASE_URL.text, PostgresPrefix)
       \/ StartsWith(e.DATABASE_URL.text, PostgresqlPrefix)
    /\ UnsetOrWithin(e.PORT, U16MaxDigits, 1, 65535)
    /\ UnsetOrWithin(e.DB_POOL_MAX_CONNECTIONS, U32MaxDigits, 1, I32Max)
    /\ UnsetOrWithin(e.DB_POOL_MIN_CONNECTIONS, U32MaxDigits, 0,
           unwrap_or(parse_env(e.DB_POOL_MAX_CONNECTIONS, U32MaxDigits), 10))
    /\ UnsetOrWithin(e.DB_CONNECT_TIMEOUT_SECS, U64MaxDigits, 1, 60)
    /\ UnsetOrWithin(e.DB_ACQUIRE_TIMEOUT_SECS, U64MaxDigits, 1, 60)

\* C9: main gets past Config::from_env only in an environment all of whose
\* configuration values are valid; no malformed or out-of-range value is
\* accepted or replaced by a default.
InvalidConfigIsFatal ==
    startup.phase \in {"configured", "connected", "routed", "serving"}
        => EnvIsValid(env)

\* the measured requests whose gauge increment has run and whose gauge
\* decrement has not
OpenRequests(path) ==
    {r \in Requests :
        /\ Measured(r)
        /\ pc[r] \in {"next", "querying", "responded", "counted",
                      "observed", "aborted"}
        /\ ExpectedPath(r) = path}

\* C10: the gauge of a path label is the number of requests with the label
\* whose increment has run and whose decrement has not, never negative;
\* and the events keep their order, so at every moment
\* decrements <= observations <= counter increments <= handler returns.
GaugeCountsOpenRequests ==
    /\ \A r \in Requests :
          Measured(r) =>
              ValueOf(in_flight, <<ExpectedPath(r)>>) =
                  Cardinality(OpenRequests(ExpectedPath(r)))
    /\ \A e \in in_flight :
          /\ e.value >= 0
          /\ \E r \in Requests : Measured(r) /\ e.labels = <<ExpectedPath(r)>>
    /\ Cardinality({r \in Requests : Measured(r) /\ pc[r] = "done"})
           <= SumSampleCounts(req_duration)
    /\ SumSampleCounts(req_duration) <= SumValues(req_total)
    /\ SumValues(req_total)
           <= Cardinality({r \in Requests : Measured(r) /\ status[r] # 0})

\* two requests with one path label are inside the middleware, one in the
\* handler and one about to release the gauge
TwoOpenRequests ==
    \E r, q \in Requests :
        /\ pc[r] = "querying" /\ pc[q] = "observed"
        /\ ExpectedPath(r) = ExpectedPath(q)
        /\ ValueOf(in_flight, <<ExpectedPath(r)>>) = 2

====
